---- MODULE Spec2Model ----
(***************************************************************************)
(* A model of find_donor.py: one pass over a pipe-delimited contribution   *)
(* file, two shelve-backed aggregation stores (recipient+zip and           *)
(* recipient+date), a zip report appended after every qualifying           *)
(* transaction and a date report written once at the end.                  *)
(*                                                                         *)
(* A Python str is a sequence of one-character strings, so that split,     *)
(* slicing, re.sub, int(), strptime and strftime are computed and not      *)
(* assumed.  A call that may raise returns [exc |-> name, val |-> value];  *)
(* exc = "none" is a normal return.                                        *)
(***************************************************************************)
EXTENDS Integers, Sequences, FiniteSets, TLC

(***************************************************************************)
(* Characters and strings                                                  *)
(***************************************************************************)
Digits == <<"0", "1", "2", "3", "4", "5", "6", "7", "8", "9">>

IsDigit(c) == \E i \in 1..10 : Digits[i] = c

DigitVal(c) == (CHOOSE i \in 1..10 : Digits[i] = c) - 1

\* The code point of every character the inputs of the model use.
CodePoint ==
    ("\n" :> 10) @@ (" " :> 32) @@ ("$" :> 36) @@ ("-" :> 45) @@ ("." :> 46) @@
    ("0" :> 48) @@ ("1" :> 49) @@ ("2" :> 50) @@ ("3" :> 51) @@ ("4" :> 52) @@
    ("5" :> 53) @@ ("6" :> 54) @@ ("7" :> 55) @@ ("8" :> 56) @@ ("9" :> 57) @@
    ("A" :> 65) @@ ("B" :> 66) @@ ("C" :> 67) @@ ("X" :> 88) @@
    ("a" :> 97) @@ ("b" :> 98) @@ ("c" :> 99) @@ ("|" :> 124)

\* Python's < on str: lexicographic by code point, a proper prefix is less.
RECURSIVE StrLess(_, _)
StrLess(s, t) ==
    IF t = <<>> THEN FALSE
    ELSE IF s = <<>> THEN TRUE
    ELSE IF s[1] # t[1] THEN CodePoint[s[1]] < CodePoint[t[1]]
    ELSE StrLess(Tail(s), Tail(t))

\* int(s) for a non-empty string of ASCII digits.
RECURSIVE DigitsToInt(_)
DigitsToInt(s) ==
    IF s = <<>> THEN 0
    ELSE 10 * DigitsToInt(SubSeq(s, 1, Len(s) - 1)) + DigitVal(s[Len(s)])

\* '{}'.format(n) for an int n.
RECURSIVE IntToStr(_)
IntToStr(n) ==
    IF n < 0 THEN <<"-">> \o IntToStr(-n)
    ELSE IF n < 10 THEN <<Digits[n + 1]>>
    ELSE IntToStr(n \div 10) \o <<Digits[(n % 10) + 1]>>

\* str.split(delimiter): the fields between the delimiters, empty ones kept.
RECURSIVE split(_, _)
split(s, d) ==
    IF \A i \in 1..Len(s) : s[i] # d THEN <<s>>
    ELSE LET k == CHOOSE i \in 1..Len(s) :
                      s[i] = d /\ \A j \in 1..(i - 1) : s[j] # d
         IN  <<SubSeq(s, 1, k - 1)>> \o split(SubSeq(s, k + 1, Len(s)), d)

\* s[:n]
Slice(s, n) == SubSeq(s, 1, IF Len(s) < n THEN Len(s) ELSE n)

Return(v) == [exc |-> "none", val |-> v]

Raise(e) == [exc |-> e, val |-> <<>>]

(***************************************************************************)
(* process_line: the record validator                                      *)
(***************************************************************************)
FieldCount == 21

\* row[i] with the source's 0-based index.
Field(row, i) == row[i + 1]

\* process_line without the check of the amount field.
process_line_NoAmountCheck(line) ==
    LET row == split(line, "|")
    IN  IF Len(row) # FieldCount THEN Raise("ValueError")
        ELSE IF Field(row, 15) # <<>> THEN Raise("ValueError")
        ELSE IF Len(Field(row, 0)) = 0 THEN Raise("ValueError")
        ELSE Return(<<Field(row, 0), Slice(Field(row, 10), 5),
                      Field(row, 13), Field(row, 14)>>)

process_line(line) ==
    LET row == split(line, "|")
    IN  IF Len(row) # FieldCount THEN Raise("ValueError")
        ELSE IF Field(row, 15) # <<>> THEN Raise("ValueError")
        ELSE IF Len(Field(row, 0)) = 0 THEN Raise("ValueError")
        ELSE IF Len(Field(row, 14)) = 0 THEN Raise("ValueError")
        ELSE Return(<<Field(row, 0), Slice(Field(row, 10), 5),
                      Field(row, 13), Field(row, 14)>>)

(***************************************************************************)
(* The grouping gates                                                      *)
(***************************************************************************)
ZipLen == 5

check_zipcode(zipcode) == ~(Len(zipcode) < ZipLen)

IsLeap(y) == y % 4 = 0 /\ (y % 100 # 0 \/ y % 400 = 0)

DaysInMonth(y, m) ==
    IF m = 2 THEN (IF IsLeap(y) THEN 29 ELSE 28)
    ELSE IF m \in {4, 6, 9, 11} THEN 30 ELSE 31

\* The lengths, in the order the regular expression of %m tries them, of the
\* prefixes of s that match 1[0-2]|0[1-9]|[1-9].
MonthLens(s) ==
    (IF Len(s) >= 2 /\ ((s[1] = "1" /\ s[2] \in {"0", "1", "2"})
                        \/ (s[1] = "0" /\ IsDigit(s[2]) /\ s[2] # "0"))
        THEN <<2>> ELSE <<>>)
    \o (IF Len(s) >= 1 /\ IsDigit(s[1]) /\ s[1] # "0" THEN <<1>> ELSE <<>>)

\* The same for %d: 3[01]|[12]\d|0[1-9]|[1-9]| [1-9].
DayLens(s) ==
    (IF Len(s) >= 2 /\ ((s[1] = "3" /\ s[2] \in {"0", "1"})
                        \/ (s[1] \in {"1", "2"} /\ IsDigit(s[2]))
                        \/ (s[1] = "0" /\ IsDigit(s[2]) /\ s[2] # "0"))
        THEN <<2>> ELSE <<>>)
    \o (IF Len(s) >= 1 /\ IsDigit(s[1]) /\ s[1] # "0" THEN <<1>> ELSE <<>>)
    \o (IF Len(s) >= 2 /\ s[1] = " " /\ IsDigit(s[2]) /\ s[2] # "0"
        THEN <<2>> ELSE <<>>)

\* %Y: \d\d\d\d
YearMatches(s) == Len(s) >= 4 /\ \A i \in 1..4 : IsDigit(s[i])

Drop(s, n) == SubSeq(s, n + 1, Len(s))

\* The matches <<month length, day length>> of %m%d%Y at the start of s, in
\* the order a backtracking matcher finds them.
RECURSIVE DayMatches(_, _, _)
DayMatches(s, ml, dls) ==
    IF dls = <<>> THEN <<>>
    ELSE (IF YearMatches(Drop(s, ml + Head(dls)))
          THEN <<<<ml, Head(dls)>>>> ELSE <<>>)
         \o DayMatches(s, ml, Tail(dls))

RECURSIVE FormatMatches(_, _)
FormatMatches(s, mls) ==
    IF mls = <<>> THEN <<>>
    ELSE DayMatches(s, Head(mls), DayLens(Drop(s, Head(mls))))
         \o FormatMatches(s, Tail(mls))

\* int() of a regex group of %m or %d: surrounding blanks are ignored.
GroupToInt(s) == DigitsToInt(SelectSeq(s, IsDigit))

\* datetime.strptime(date, '%m%d%Y'): the first match must use the whole
\* string, and the date must exist.  The value is <<year, month, day>>, which
\* tuple order compares as datetime does.
strptime(date) ==
    LET ms == FormatMatches(date, MonthLens(date))
    IN  IF ms = <<>> THEN Raise("ValueError")
        ELSE LET ml == ms[1][1]
                 dl == ms[1][2]
                 m  == GroupToInt(SubSeq(date, 1, ml))
                 d  == GroupToInt(SubSeq(date, ml + 1, ml + dl))
                 y  == DigitsToInt(SubSeq(date, ml + dl + 1, ml + dl + 4))
             IN  IF Len(date) # ml + dl + 4 THEN Raise("ValueError")
                 ELSE IF y < 1 \/ d > DaysInMonth(y, m) THEN Raise("ValueError")
                 ELSE Return(<<y, m, d>>)

check_date(date) == strptime(date).exc = "none"

Pad2(n) == IF n < 10 THEN <<"0">> \o IntToStr(n) ELSE IntToStr(n)

\* datetime.strftime(date, '%m%d%Y'); %Y is the year's plain decimal form.
date_to_string(dt) == Pad2(dt[2]) \o Pad2(dt[3]) \o IntToStr(dt[1])

(***************************************************************************)
(* string_to_int: the amount normalizer                                    *)
(***************************************************************************)
\* What re.sub(r'[^\d.]+', '', .) keeps.
KeptByNonDecimal(c) == IsDigit(c) \/ c = "."

\* string_to_int with a pattern that keeps a leading minus sign.
string_to_int_KeepsSign(string) ==
    LET cleaned == SelectSeq(string, KeptByNonDecimal)
    IN  IF cleaned # <<>> /\ \A i \in 1..Len(cleaned) : IsDigit(cleaned[i])
        THEN Return(IF Head(string) = "-" THEN -DigitsToInt(cleaned)
                    ELSE DigitsToInt(cleaned))
        ELSE Raise("ValueError")

\* int() of a string of digits and points: a point is not part of an int
\* literal, nor is the empty string one.
string_to_int(string) ==
    LET cleaned == SelectSeq(string, KeptByNonDecimal)
    IN  IF cleaned # <<>> /\ \A i \in 1..Len(cleaned) : IsDigit(cleaned[i])
        THEN Return(DigitsToInt(cleaned))
        ELSE Raise("ValueError")

(***************************************************************************)
(* rounder and the derived statistics of a record                          *)
(***************************************************************************)
\* A Python number: an int, or a float held exactly as num/den.
IntNum(n) == [isint |-> TRUE, num |-> n, den |-> 1]

FloatNum(n, d) == [isint |-> FALSE, num |-> n, den |-> d]

\* int(whole) of math.modf: the quotient truncated towards zero.
Whole(num, den) == IF num >= 0 THEN num \div den ELSE -((-num) \div den)

rounder(number) ==
    IF number.isint THEN number.num
    ELSE LET whole   == Whole(number.num, number.den)
             fracnum == number.num - whole * number.den
         IN  IF 2 * fracnum < number.den THEN whole ELSE whole + 1

RECURSIVE Insert(_, _)
Insert(x, s) ==
    IF s = <<>> THEN <<x>>
    ELSE IF x <= Head(s) THEN <<x>> \o s
    ELSE <<Head(s)>> \o Insert(x, Tail(s))

RECURSIVE SortInts(_)
SortInts(s) == IF s = <<>> THEN <<>> ELSE Insert(Head(s), SortInts(Tail(s)))

\* numpy.median taking the middle of the list as it is stored.
np_median_Unsorted(amount) ==
    LET n == Len(amount)
    IN  IF n % 2 = 1 THEN FloatNum(amount[(n + 1) \div 2], 1)
        ELSE FloatNum(amount[n \div 2] + amount[n \div 2 + 1], 2)

\* numpy.median of a non-empty list of ints: a float, the middle of the sorted
\* list or the mean of its two middle values.
np_median(amount) ==
    LET srt == SortInts(amount)
        n   == Len(srt)
    IN  IF n % 2 = 1 THEN FloatNum(srt[(n + 1) \div 2], 1)
        ELSE FloatNum(srt[n \div 2] + srt[n \div 2 + 1], 2)

RECURSIVE sum(_)
sum(amount) == IF amount = <<>> THEN 0 ELSE Head(amount) + sum(Tail(amount))

Record_median(record) == rounder(np_median(record.amount))

Record_count(record) == Len(record.amount)

Record_total(record) == rounder(IntNum(sum(record.amount)))

(***************************************************************************)
(* ZipRecord and DateRecord.  line is the tuple process_line returns; the   *)
(* source's line[i] is line[i + 1] here.                                    *)
(***************************************************************************)
Space == <<" ">>

\* A zip key made of the recipient id alone.
ZipKey_IdOnly(ID, zipcode) == ID

ZipKey(ID, zipcode) == ID \o Space \o zipcode

DateKey(ID, date) == ID \o Space \o date

ZipRecord(line) ==
    LET a == string_to_int(line[4])
    IN  IF a.exc # "none" THEN Raise(a.exc)
        ELSE Return([ID |-> line[1], sec |-> line[2],
                     key |-> ZipKey(line[1], line[2]), amount |-> <<a.val>>])

DateRecord(line) ==
    LET a == string_to_int(line[4])
    IN  IF a.exc # "none" THEN Raise(a.exc)
        ELSE Return([ID |-> line[1], sec |-> line[3],
                     key |-> DateKey(line[1], line[3]), amount |-> <<a.val>>])

\* record(line): self.amount.append(string_to_int(line[-1]))
Record_call(record, line) ==
    [record EXCEPT !.amount = Append(@, string_to_int(line[4]).val)]

\* '{}|{}|{}|{}|{}\n'.format(ID, zipcode or date, median, count, total)
FormatRecord(record) ==
    record.ID \o <<"|">> \o record.sec \o <<"|">> \o IntToStr(Record_median(record))
    \o <<"|">> \o IntToStr(Record_count(record)) \o <<"|">> \o IntToStr(Record_total(record))
    \o <<"\n">>

(***************************************************************************)
(* shelve.Shelf with writeback=True: dict is the dbm file, cache the        *)
(* objects loaded or stored since the last sync.                            *)
(***************************************************************************)
EmptyMap == <<>>

Put(f, k, v) == [x \in DOMAIN f \cup {k} |-> IF x = k THEN v ELSE f[x]]

\* What a read through the shelf sees.
View(sh) ==
    [k \in DOMAIN sh.dict \cup DOMAIN sh.cache |->
        IF k \in DOMAIN sh.cache THEN sh.cache[k] ELSE sh.dict[k]]

\* key in shelf.keys(): the keys of the dbm file.
Shelf_contains(sh, key) == key \in DOMAIN sh.dict

\* shelf[key] = value: kept in the cache and pickled into the dbm file at once.
Shelf_setitem(sh, key, value) ==
    [cache |-> Put(sh.cache, key, value), dict |-> Put(sh.dict, key, value)]

\* shelf[key]: the cached object, else the one unpickled from the dbm file,
\* which the cache then keeps.
Shelf_getitem(sh, key) ==
    IF key \in DOMAIN sh.cache THEN sh
    ELSE [sh EXCEPT !.cache = Put(@, key, sh.dict[key])]

\* shelf.sync(): every cached object is pickled back, the cache is emptied.
\* A sync that empties the cache without writing its entries back.
Shelf_sync_DropsCache(sh) == [cache |-> EmptyMap, dict |-> sh.dict]

Shelf_sync(sh) == [cache |-> EmptyMap, dict |-> View(sh)]

(***************************************************************************)
(* The state of a run                                                      *)
(***************************************************************************)
VARIABLES
    pc,           \* where __main__ is: "start", "reading", "written", "done",
                  \* "raised" (ended by an exception), "killed"
    exc,          \* the exception that ended the run, or "none"
    input,        \* the lines of the input file
    pos,          \* how many of them read_line has read
    zip_shelve,   \* [cache, dict] of input/zip_shelve
    date_shelve,  \* [cache, dict] of input/date_shelve
    count,        \* Shelve.count
    cache_size,   \* Shelve.cache_size
    zip_out,      \* the file at zipcode_path: [exists, lines]
    date_out,     \* the file at date_path: [exists, lines]
    zip_synced,   \* the dbm content of zip_shelve as of its last sync (or open)
    date_synced,  \* the same for date_shelve
    run,          \* the number of this run of the program
    handle,       \* per shelf: "unopened", "open", or "closed" by close()
    call          \* the last direct call of a function: [fn, arg, result]

vars == <<pc, exc, input, pos, zip_shelve, date_shelve, count, cache_size,
          zip_out, date_out, zip_synced, date_synced, run, handle, call>>

Unopened == [zip_shelve |-> "unopened", date_shelve |-> "unopened"]

\* shelve.open(...) of both shelves in Shelve.__init__.
Opened == [zip_shelve |-> "open", date_shelve |-> "open"]

NoCall == [fn |-> "none", arg |-> <<>>, result |-> 0, done |-> FALSE]

NoFile == [exists |-> FALSE, lines |-> <<>>]

\* open(path, 'w') and one writelines: the file holds the line alone.
AppendLine_Truncates(out, text) == [exists |-> TRUE, lines |-> <<text>>]

\* open(path, 'a') and one writelines: the file exists and ends with the line.
AppendLine(out, text) == [exists |-> TRUE, lines |-> Append(out.lines, text)]

write_zipcode(record, out) == AppendLine(out, FormatRecord(record))

(***************************************************************************)
(* Shelve.update_zip_record, Shelve.update_date_record, Shelve.__call__    *)
(***************************************************************************)
\* Upsert storing the new record over the one the shelf holds.
Upsert_Overwrite(sh, record, line) ==
    [sh |-> Shelf_setitem(sh, record.key, record), record |-> record]

\* The shelf after the create-or-append of one transaction, and the record
\* it then holds for the key.
Upsert(sh, record, line) ==
    IF ~Shelf_contains(sh, record.key)
    THEN [sh |-> Shelf_setitem(sh, record.key, record), record |-> record]
    ELSE LET got == Shelf_getitem(sh, record.key)
             rec == Record_call(got.cache[record.key], line)
         IN  [sh |-> [got EXCEPT !.cache[record.key] = rec], record |-> rec]

update_zip_record(sh, out, record, line) ==
    IF check_zipcode(line[2])
    THEN LET u == Upsert(sh, record, line)
         IN  [sh |-> u.sh, out |-> write_zipcode(u.record, out)]
    ELSE [sh |-> sh, out |-> out]

\* update_date_record nested under the zip gate.
update_date_record_UnderZipGate(sh, record, line) ==
    IF check_zipcode(line[2]) /\ check_date(line[3])
    THEN Upsert(sh, record, line).sh ELSE sh

update_date_record(sh, record, line) ==
    IF check_date(line[3]) THEN Upsert(sh, record, line).sh ELSE sh

\* my_shelve(line) without the periodic sync of the two shelves.
Shelve_call_NeverSyncs(line) ==
    LET zr == ZipRecord(line)
        dr == DateRecord(line)
    IN  IF zr.exc # "none" \/ dr.exc # "none"
        THEN /\ pc' = "raised"
             /\ exc' = (IF zr.exc # "none" THEN zr.exc ELSE dr.exc)
             /\ UNCHANGED <<zip_shelve, date_shelve, count, zip_out,
                            zip_synced, date_synced>>
        ELSE LET uz == update_zip_record(zip_shelve, zip_out, zr.val, line)
                 ud == update_date_record(date_shelve, dr.val, line)
             IN  /\ zip_shelve' = uz.sh
                 /\ date_shelve' = ud
                 /\ count' = count + 1
                 /\ zip_out' = uz.out
                 /\ UNCHANGED <<pc, exc, zip_synced, date_synced>>

\* my_shelve(line) for a tuple that process_line returned.
Shelve_call(line) ==
    LET zr == ZipRecord(line)
        dr == DateRecord(line)
    IN  IF zr.exc # "none" \/ dr.exc # "none"
        THEN /\ pc' = "raised"
             /\ exc' = (IF zr.exc # "none" THEN zr.exc ELSE dr.exc)
             /\ UNCHANGED <<zip_shelve, date_shelve, count, zip_out,
                            zip_synced, date_synced>>
        ELSE LET uz    == update_zip_record(zip_shelve, zip_out, zr.val, line)
                 ud    == update_date_record(date_shelve, dr.val, line)
                 flush == count + 1 = cache_size
             IN  /\ zip_shelve' = (IF flush THEN Shelf_sync(uz.sh) ELSE uz.sh)
                 /\ date_shelve' = (IF flush THEN Shelf_sync(ud) ELSE ud)
                 /\ count' = (IF flush THEN 0 ELSE count + 1)
                 /\ zip_out' = uz.out
                 /\ zip_synced' = (IF flush THEN View(uz.sh) ELSE zip_synced)
                 /\ date_synced' = (IF flush THEN View(ud) ELSE date_synced)
                 /\ UNCHANGED <<pc, exc>>

(***************************************************************************)
(* sort_key_by_date and write_date                                         *)
(***************************************************************************)
DateLess(a, b) ==
    \/ a[1] < b[1]
    \/ a[1] = b[1] /\ a[2] < b[2]
    \/ a[1] = b[1] /\ a[2] = b[2] /\ a[3] < b[3]

\* EntryLeq comparing the dates as the strings strftime gives.
EntryLeq_ByDateString(a, b) ==
    \/ StrLess(a[1], b[1])
    \/ a[1] = b[1] /\ (a[2] = b[2]
                        \/ StrLess(date_to_string(a[2]), date_to_string(b[2])))

\* [id, datetime] <= [id, datetime] as Python compares lists.
EntryLeq(a, b) ==
    \/ StrLess(a[1], b[1])
    \/ a[1] = b[1] /\ (a[2] = b[2] \/ DateLess(a[2], b[2]))

\* key.split(' ') unpacks into id, date only when it gives two parts.
KeySplits(key) == Len(split(key, " ")) = 2

\* [id, datetime.strptime(date, '%m%d%Y')] of a key that splits and parses.
KeyEntry(key) ==
    LET parts == split(key, " ") IN <<parts[1], strptime(parts[2]).val>>

\* sorted(list_of_keys) over the entries of the keys in S; equal entries are
\* interchangeable.
RECURSIVE SortedEntries(_)
SortedEntries(S) ==
    IF S = {} THEN <<>>
    ELSE LET k == CHOOSE x \in S :
                      \A y \in S : EntryLeq(KeyEntry(x), KeyEntry(y))
         IN  <<KeyEntry(k)>> \o SortedEntries(S \ {k})

sort_key_by_date(keys) ==
    IF \E k \in keys : ~KeySplits(k) \/ strptime(split(k, " ")[2]).exc # "none"
    THEN Raise("ValueError")
    ELSE LET sorted_list == SortedEntries(keys)
         IN  Return([i \in 1..Len(sorted_list) |->
                        sorted_list[i][1] \o Space
                        \o date_to_string(sorted_list[i][2])])

\* The loop of write_date over the sorted keys from the i-th on: a line per
\* key the shelf holds, up to the first key it does not hold (KeyError).
RECURSIVE WriteKeys(_, _, _, _)
WriteKeys(sh, out, keys, i) ==
    IF i > Len(keys) THEN [exc |-> "none", sh |-> sh, out |-> out]
    ELSE IF keys[i] \notin DOMAIN sh.cache \cup DOMAIN sh.dict
    THEN [exc |-> "KeyError", sh |-> sh, out |-> out]
    ELSE LET got == Shelf_getitem(sh, keys[i])
         IN  WriteKeys(got, AppendLine(out, FormatRecord(got.cache[keys[i]])),
                       keys, i + 1)

\* The body of write_date once the file is open and the keys are sorted.
WriteSorted(sh, opened, sk) ==
    IF sk.exc # "none" THEN [exc |-> sk.exc, sh |-> sh, out |-> opened]
    ELSE WriteKeys(sh, opened, sk.val, 1)

write_date(sh, out) ==
    CHOOSE w \in { WriteSorted(sh, [out EXCEPT !.exists = TRUE], sk) :
                      sk \in {sort_key_by_date(DOMAIN sh.dict)} } : TRUE

(***************************************************************************)
(* __main__                                                                *)
(***************************************************************************)
DefaultCacheSize == 1000

\* Shelve(...) constructed ahead of the isfile() check of the output paths.
Main_Start_OpensFirst ==
    /\ pc = "start"
    /\ handle' = Opened
    /\ zip_shelve' = [cache |-> EmptyMap, dict |-> zip_shelve.dict]
    /\ date_shelve' = [cache |-> EmptyMap, dict |-> date_shelve.dict]
    /\ count' = 0
    /\ zip_synced' = zip_shelve.dict
    /\ date_synced' = date_shelve.dict
    /\ IF zip_out.exists \/ date_out.exists
       THEN pc' = "raised" /\ exc' = "OSError"
       ELSE pc' = "reading" /\ exc' = "none"
    /\ UNCHANGED <<input, pos, cache_size, zip_out, date_out, run, call>>

\* isfile() of the two output paths, then Shelve(...): both shelves are opened
\* on what earlier runs left in them.
Main_Start ==
    /\ pc = "start"
    /\ IF zip_out.exists \/ date_out.exists
       THEN /\ pc' = "raised"
            /\ exc' = "OSError"
            /\ UNCHANGED <<zip_shelve, date_shelve, count, zip_synced,
                           date_synced, handle>>
       ELSE /\ pc' = "reading"
            /\ exc' = "none"
            /\ handle' = Opened
            /\ zip_shelve' = [cache |-> EmptyMap, dict |-> zip_shelve.dict]
            /\ date_shelve' = [cache |-> EmptyMap, dict |-> date_shelve.dict]
            /\ count' = 0
            /\ zip_synced' = zip_shelve.dict
            /\ date_synced' = date_shelve.dict
    /\ UNCHANGED <<input, pos, cache_size, zip_out, date_out, run, call>>

\* One iteration of `for line in read_line(args.input): my_shelve(line)`:
\* a line process_line rejects is skipped, any other is aggregated.
ReadLine ==
    /\ pc = "reading"
    /\ pos < Len(input)
    /\ pos' = pos + 1
    /\ LET p == process_line(input[pos + 1])
       IN  IF p.exc # "none"
           THEN UNCHANGED <<pc, exc, zip_shelve, date_shelve, count, zip_out,
                            zip_synced, date_synced>>
           ELSE Shelve_call(p.val)
    /\ UNCHANGED <<input, cache_size, date_out, run, handle, call>>

\* write_date(my_shelve.date_shelve, ...) called inside the read loop.
WriteDate_InsideLoop ==
    /\ pc = "reading"
    /\ \E w \in {write_date(date_shelve, date_out)} :
           /\ date_shelve' = w.sh
           /\ date_out' = w.out
           /\ exc' = w.exc
           /\ pc' = (IF w.exc = "none" THEN "reading" ELSE "raised")
    /\ UNCHANGED <<input, pos, zip_shelve, count, cache_size, zip_out,
                   zip_synced, date_synced, run, handle, call>>

\* write_date(my_shelve.date_shelve, ...) once the input is exhausted.
WriteDate ==
    /\ pc = "reading"
    /\ pos = Len(input)
    /\ \E w \in {write_date(date_shelve, date_out)} :
           /\ date_shelve' = w.sh
           /\ date_out' = w.out
           /\ exc' = w.exc
           /\ pc' = (IF w.exc = "none" THEN "written" ELSE "raised")
    /\ UNCHANGED <<input, pos, zip_shelve, count, cache_size, zip_out,
                   zip_synced, date_synced, run, handle, call>>

\* my_shelve.close(): each shelf is synced and closed.
Close ==
    /\ pc = "written"
    /\ pc' = "done"
    /\ date_shelve' = Shelf_sync(date_shelve)
    /\ zip_shelve' = Shelf_sync(zip_shelve)
    /\ date_synced' = View(date_shelve)
    /\ zip_synced' = View(zip_shelve)
    /\ handle' = [zip_shelve |-> "closed", date_shelve |-> "closed"]
    /\ UNCHANGED <<exc, input, pos, count, cache_size, zip_out, date_out, run,
                   call>>

Next == Main_Start \/ ReadLine \/ WriteDate \/ Close

(***************************************************************************)
(* Input files.  A well-formed line has 21 fields: recipient id (0),       *)
(* zip (10), date (13), amount (14) and other-id (15); the others are left  *)
(* empty, and the last one holds the line's newline.                        *)
(***************************************************************************)
RECURSIVE Bars(_)
Bars(n) == IF n = 0 THEN <<>> ELSE <<"|">> \o Bars(n - 1)

Line(ID, zipcode, date, amount, other) ==
    ID \o Bars(10) \o zipcode \o Bars(3) \o date \o Bars(1) \o amount
    \o Bars(1) \o other \o Bars(5) \o <<"\n">>

\* The same with the last field missing: 20 fields.
ShortLine(ID, zipcode, date, amount, other) ==
    ID \o Bars(10) \o zipcode \o Bars(3) \o date \o Bars(1) \o amount
    \o Bars(1) \o other \o Bars(4) \o <<"\n">>

C001 == <<"C", "0", "0", "1">>
C002 == <<"C", "0", "0", "2">>
IdWithSpace == <<"A", " ", "B">>
Zip900011234 == <<"9", "0", "0", "0", "1", "1", "2", "3", "4">>
Zip90001 == <<"9", "0", "0", "0", "1">>
Zip9000 == <<"9", "0", "0", "0">>
Zip10001 == <<"1", "0", "0", "0", "1">>
Date01012017 == <<"0", "1", "0", "1", "2", "0", "1", "7">>
Date12312016 == <<"1", "2", "3", "1", "2", "0", "1", "6">>
Date112017 == <<"1", "1", "2", "0", "1", "7">>
Date13322021 == <<"1", "3", "3", "2", "2", "0", "2", "1">>
Amt100 == <<"1", "0", "0">>
Amt250 == <<"2", "5", "0">>
Amt1299 == <<"1", "2", ".", "9", "9">>
AmtDollar1299 == <<"$", "1", "2", ".", "9", "9">>
AmtLetters == <<"a", "b", "c">>
AmtTwoPoints == <<"1", ".", "2", ".", "3">>
Empty == <<>>
OtherId == <<"X">>
IdA == <<"A">>
IdA1 == <<"A", " ", "1">>
Zip1s120 == <<"1", " ", "1", "2", "0">>
Zip12017 == <<"1", "2", "0", "1", "7">>
Zip120171234 == <<"1", "2", "0", "1", "7", "1", "2", "3", "4">>
Date1s12017 == <<"1", " ", "1", "2", "0", "1", "7">>
Date12017 == <<"1", "2", "0", "1", "7">>
AmtMinus100 == <<"-", "1", "0", "0">>

\* Both gates, a second zip, one gate only, a rejected line and an amount
\* int() refuses.
Lines ==
    { Line(C001, Zip900011234, Date01012017, Amt100, Empty),
      Line(C001, Zip900011234, Date01012017, Amt250, Empty),
      Line(C002, Zip900011234, Date13322021, Amt100, Empty),
      Line(C001, Zip10001, Date01012017, Amt250, Empty),
      Line(C001, Zip9000, Date01012017, Amt250, Empty),
      Line(C001, Zip900011234, Date01012017, Empty, Empty),
      Line(C001, Zip900011234, Date01012017, AmtDollar1299, Empty) }

\* Every way process_line rejects a line, and every kind of amount.
SkipLines ==
    { Line(C001, Zip900011234, Date01012017, Amt100, Empty),
      Line(C001, Zip900011234, Date01012017, Empty, Empty),
      ShortLine(C001, Zip900011234, Date01012017, Amt100, Empty),
      Line(C001, Zip900011234, Date01012017, Amt100, OtherId),
      Line(Empty, Zip900011234, Date01012017, Amt100, Empty),
      Line(C001, Zip900011234, Date01012017, Amt1299, Empty),
      Line(C001, Zip900011234, Date01012017, AmtDollar1299, Empty),
      Line(C001, Zip900011234, Date01012017, AmtLetters, Empty),
      Line(C001, Zip900011234, Date01012017, AmtTwoPoints, Empty) }

\* Dates out of calendar order, two spellings of one day, a date strptime
\* refuses and an id that holds the key's separator.
DateLines ==
    { Line(C001, Zip900011234, Date01012017, Amt100, Empty),
      Line(C001, Zip900011234, Date12312016, Amt250, Empty),
      Line(C001, Zip900011234, Date112017, Amt100, Empty),
      Line(C002, Zip900011234, Date12312016, Amt100, Empty),
      Line(C001, Zip900011234, Date13322021, Amt100, Empty),
      Line(IdWithSpace, Zip900011234, Date01012017, Amt100, Empty) }

\* Recipient ids and secondary fields that hold the key separator, chosen so
\* that an id joined to one field reads like another id joined to another
\* field, and an amount with a minus sign.
KeyLines ==
    { Line(IdA, Zip1s120, Date1s12017, Amt100, Empty),
      Line(IdA1, Zip12017, Date12017, Amt250, Empty),
      Line(IdA1, Zip1s120, Date1s12017, Amt100, Empty),
      Line(IdA, Zip12017, Date01012017, AmtMinus100, Empty),
      Line(IdA, Zip120171234, Date01012017, Amt250, Empty) }

RunLines ==
    { Line(C001, Zip900011234, Date01012017, Amt100, Empty),
      Line(C002, Zip9000, Date12312016, Amt250, Empty),
      Line(C001, Zip900011234, Date01012017, Empty, Empty) }

MaxLines == 3

MaxRunLines == 2

MaxRuns == 2

SmallCacheSize == 2

Inputs(L, n) == UNION {[1..k -> L] : k \in 0..n}

\* A first run: no output file, no shelve file, the input not yet read.
InitOn(L, n, sizes) ==
    /\ pc = "start"
    /\ exc = "none"
    /\ input \in Inputs(L, n)
    /\ pos = 0
    /\ zip_shelve = [cache |-> EmptyMap, dict |-> EmptyMap]
    /\ date_shelve = [cache |-> EmptyMap, dict |-> EmptyMap]
    /\ count = 0
    /\ cache_size \in sizes
    /\ zip_out = NoFile
    /\ date_out = NoFile
    /\ zip_synced = EmptyMap
    /\ date_synced = EmptyMap
    /\ run = 1
    /\ handle = Unopened
    /\ call = NoCall

\* The program is run again after a completed run, on the shelve files that
\* run left, with the same output paths or with paths that name no file yet.
NextRun ==
    /\ pc = "done"
    /\ run < MaxRuns
    /\ pc' = "start"
    /\ exc' = "none"
    /\ input' \in Inputs(RunLines, MaxRunLines)
    /\ pos' = 0
    /\ count' = 0
    /\ \E fresh \in BOOLEAN :
          /\ zip_out' = (IF fresh THEN NoFile ELSE zip_out)
          /\ date_out' = (IF fresh THEN NoFile ELSE date_out)
    /\ run' = run + 1
    /\ handle' = Unopened
    /\ UNCHANGED <<zip_shelve, date_shelve, cache_size, zip_synced, date_synced,
                   call>>

\* The process is terminated from outside while it runs: the objects in its
\* memory are gone, the dbm files stay as they are.
Kill ==
    /\ pc \in {"reading", "written"}
    /\ pc' = "killed"
    /\ zip_shelve' = [zip_shelve EXCEPT !.cache = EmptyMap]
    /\ date_shelve' = [date_shelve EXCEPT !.cache = EmptyMap]
    /\ UNCHANGED <<exc, input, pos, count, cache_size, zip_out, date_out,
                   zip_synced, date_synced, run, handle, call>>

(***************************************************************************)
(* rounder and the median property called directly, on arguments the        *)
(* aggregation of an input file does not produce                            *)
(***************************************************************************)
MaxNumerator == 30

MaxAmount == 2

MaxHistory == 4

\* ints, and floats n/1, n/2 and n/10 (2.5 is 5/2, 2.4 is 24/10).
RounderArgs ==
    {IntNum(n) : n \in -MaxNumerator..MaxNumerator}
    \cup {FloatNum(n, d) : n \in -MaxNumerator..MaxNumerator, d \in {1, 2, 10}}

Histories == UNION {[1..k -> -MaxAmount..MaxAmount] : k \in 1..MaxHistory}

PureCalls ==
    {[fn |-> "rounder", arg |-> x, result |-> 0, done |-> FALSE] :
        x \in RounderArgs}
    \cup {[fn |-> "median", arg |-> h, result |-> 0, done |-> FALSE] :
        h \in Histories}

prog == <<pc, exc, input, pos, zip_shelve, date_shelve, count, cache_size,
          zip_out, date_out, zip_synced, date_synced, run, handle>>

InitPure ==
    /\ pc = "start"
    /\ exc = "none"
    /\ input = <<>>
    /\ pos = 0
    /\ zip_shelve = [cache |-> EmptyMap, dict |-> EmptyMap]
    /\ date_shelve = [cache |-> EmptyMap, dict |-> EmptyMap]
    /\ count = 0
    /\ cache_size = DefaultCacheSize
    /\ zip_out = NoFile
    /\ date_out = NoFile
    /\ zip_synced = EmptyMap
    /\ date_synced = EmptyMap
    /\ run = 1
    /\ handle = Unopened
    /\ call \in PureCalls

\* rounder(number)
Apply_rounder ==
    /\ call.fn = "rounder"
    /\ ~call.done
    /\ call' = [call EXCEPT !.result = rounder(call.arg), !.done = TRUE]
    /\ UNCHANGED prog

\* record.median of a record whose amount list is the history
Apply_median ==
    /\ call.fn = "median"
    /\ ~call.done
    /\ call' = [call EXCEPT !.result = Record_median([amount |-> call.arg]),
                            !.done = TRUE]
    /\ UNCHANGED prog

NextPure == Apply_rounder \/ Apply_median

SpecPure == InitPure /\ [][NextPure]_vars

Init == InitOn(Lines, MaxLines, {DefaultCacheSize})

Spec == Init /\ [][Next]_vars

InitSkip == InitOn(SkipLines, MaxLines, {DefaultCacheSize})

SpecSkip == InitSkip /\ [][Next]_vars

InitDate == InitOn(DateLines, MaxLines, {DefaultCacheSize})

SpecDate == InitDate /\ [][Next]_vars

InitRuns == InitOn(RunLines, MaxRunLines, {DefaultCacheSize})

NextRuns == Next \/ NextRun

SpecRuns == InitRuns /\ [][NextRuns]_vars

\* Runs of Shelve(..., cache_size) with a cache_size the input can reach.
InitFlush == InitOn(Lines, MaxLines, {SmallCacheSize, DefaultCacheSize})

SpecFlush == InitFlush /\ [][Next]_vars

InitKeys == InitOn(KeyLines, MaxLines, {DefaultCacheSize})

SpecKeys == InitKeys /\ [][Next]_vars

InitCrash == InitOn(RunLines, MaxLines, {SmallCacheSize, DefaultCacheSize})

NextCrash == Next \/ Kill

SpecCrash == InitCrash /\ [][NextCrash]_vars

(***************************************************************************)
(* What the claims say of an input line, stated on the raw line            *)
(***************************************************************************)
Row(l) == split(l, "|")

\* 21 fields, field 15 empty, fields 0 and 14 non-empty.
PassesValidation(l) ==
    /\ Len(Row(l)) = 21
    /\ Row(l)[16] = <<>>
    /\ Row(l)[1] # <<>>
    /\ Row(l)[15] # <<>>

IdOf(l) == Row(l)[1]

ZipPrefixOf(l) == SubSeq(Row(l)[11], 1, IF Len(Row(l)[11]) < 5 THEN Len(Row(l)[11]) ELSE 5)

DateOf(l) == Row(l)[14]

RawAmountOf(l) == Row(l)[15]

Normalizable(l) == string_to_int(RawAmountOf(l)).exc = "none"

AmountOf(l) == string_to_int(RawAmountOf(l)).val

\* A transaction: a validated line with a normalizable amount.
IsTransaction(l) == PassesValidation(l) /\ Normalizable(l)

PassesZipGate(l) == IsTransaction(l) /\ Len(ZipPrefixOf(l)) >= 5

PassesDateGate(l) == IsTransaction(l) /\ check_date(DateOf(l))

\* The indices, in input order, of the first n lines that pass the zip gate.
RECURSIVE ZipEvents(_)
ZipEvents(n) ==
    IF n = 0 THEN <<>>
    ELSE ZipEvents(n - 1) \o (IF PassesZipGate(input[n]) THEN <<n>> ELSE <<>>)

\* The amounts, in input order, of the first n lines that pass the zip gate
\* with recipient id and zip prefix z.
RECURSIVE ZipAmounts(_, _, _)
ZipAmounts(id, z, n) ==
    IF n = 0 THEN <<>>
    ELSE ZipAmounts(id, z, n - 1)
         \o (IF PassesZipGate(input[n]) /\ IdOf(input[n]) = id
                /\ ZipPrefixOf(input[n]) = z
             THEN <<AmountOf(input[n])>> ELSE <<>>)

RECURSIVE DateAmounts(_, _, _)
DateAmounts(id, d, n) ==
    IF n = 0 THEN <<>>
    ELSE DateAmounts(id, d, n - 1)
         \o (IF PassesDateGate(input[n]) /\ IdOf(input[n]) = id
                /\ DateOf(input[n]) = d
             THEN <<AmountOf(input[n])>> ELSE <<>>)

\* The median of a non-empty history of non-negative integers, halves up.
MedianOf(a) ==
    LET srt == SortInts(a)
        n   == Len(a)
    IN  IF n % 2 = 1 THEN srt[(n + 1) \div 2]
        ELSE (srt[n \div 2] + srt[n \div 2 + 1] + 1) \div 2

ReportLine(id, sec, a) ==
    id \o <<"|">> \o sec \o <<"|">> \o IntToStr(MedianOf(a)) \o <<"|">>
    \o IntToStr(Len(a)) \o <<"|">> \o IntToStr(sum(a)) \o <<"\n">>

RunEnded == pc \in {"done", "raised", "killed"}

(***************************************************************************)
(* C1: in a run that starts from an empty store, the j-th line of the zip   *)
(* report is the one of the j-th input line that passes the zip gate: its   *)
(* recipient id and zip prefix, then the median, count and total of the     *)
(* amounts of the lines up to it that pass the gate with the same id and    *)
(* prefix.                                                                  *)
(***************************************************************************)
C1_ZipLineIsRunningStatistic ==
    /\ Len(zip_out.lines) = Len(ZipEvents(pos))
    /\ \A j \in 1..Len(zip_out.lines) :
          LET i == ZipEvents(pos)[j]
              l == input[i]
          IN  zip_out.lines[j] =
                  ReportLine(IdOf(l), ZipPrefixOf(l),
                             ZipAmounts(IdOf(l), ZipPrefixOf(l), i))

\* Three lines for C001 and 900011234 with 100, 250, 100 end the report with
\* C001|90001|100|3|450.
C1_Witness ==
    /\ pos = 3
    /\ \A i \in 1..3 : IdOf(input[i]) = C001 /\ Row(input[i])[11] = Zip900011234
    /\ <<RawAmountOf(input[1]), RawAmountOf(input[2]), RawAmountOf(input[3])>>
           = <<Amt100, Amt250, Amt100>>
    /\ Len(zip_out.lines) = 3
    /\ zip_out.lines[3] = C001 \o <<"|">> \o Zip90001 \o <<"|">> \o Amt100
                          \o <<"|", "3", "|", "4", "5", "0", "\n">>

(***************************************************************************)
(* C2: a validated line whose amount cannot be normalized is skipped: once  *)
(* it is read the run goes on reading, with no exception.                   *)
(***************************************************************************)
C2_InvalidAmountIsSkipped ==
    (pos > 0 /\ PassesValidation(input[pos]) /\ ~Normalizable(input[pos]))
        => (pc = "reading" /\ exc = "none")

(***************************************************************************)
(* C3: when a run has ended, the zip report has as many lines as the input  *)
(* has lines that pass validation, have a normalizable amount and a zip     *)
(* prefix of length 5 or more.                                              *)
(***************************************************************************)
C3_ZipLineCount ==
    RunEnded => Len(zip_out.lines) = Len(ZipEvents(Len(input)))

(***************************************************************************)
(* C4: once the date report is written it holds one line for every key of   *)
(* the date store, the line of that key's record, and no other line.        *)
(***************************************************************************)
C4_DateReportOneLinePerKey ==
    pc \in {"written", "done"} =>
        /\ Len(date_out.lines) = Cardinality(DOMAIN View(date_shelve))
        /\ \A k \in DOMAIN View(date_shelve) :
              \E j \in 1..Len(date_out.lines) :
                  date_out.lines[j] = FormatRecord(View(date_shelve)[k])

(***************************************************************************)
(* C5: consecutive lines of the date report are in order: by recipient id   *)
(* as strings, and for one recipient id by the calendar date their date     *)
(* fields parse to.                                                         *)
(***************************************************************************)
ReportId(text) == split(text, "|")[1]

ReportDate(text) == strptime(split(text, "|")[2]).val

C5_DateReportSorted ==
    \A j \in 1..(Len(date_out.lines) - 1) :
        LET a == date_out.lines[j]
            b == date_out.lines[j + 1]
        IN  /\ ~StrLess(ReportId(b), ReportId(a))
            /\ ReportId(a) = ReportId(b)
                   => ~DateLess(ReportDate(b), ReportDate(a))

\* A written report where one recipient's line of 12312016 precedes its line
\* of 01012017, and another recipient's line follows.
C5_Witness ==
    /\ pc = "done"
    /\ Len(date_out.lines) = 3
    /\ ReportId(date_out.lines[1]) = C001
    /\ split(date_out.lines[1], "|")[2] = Date12312016
    /\ ReportId(date_out.lines[2]) = C001
    /\ split(date_out.lines[2], "|")[2] = Date01012017
    /\ ReportId(date_out.lines[3]) = C002

(***************************************************************************)
(* C6: when a run completes, the count of every key of the zip store and of *)
(* the date store is the number of lines of that run's input that pass      *)
(* validation and the key's gate, in a first run and in a later one.        *)
(***************************************************************************)
C6_CountIsNumberOfTransactions ==
    pc = "done" =>
        /\ \A k \in DOMAIN View(zip_shelve) :
              LET r == View(zip_shelve)[k]
              IN  Record_count(r) = Len(ZipAmounts(r.ID, r.sec, Len(input)))
        /\ \A k \in DOMAIN View(date_shelve) :
              LET r == View(date_shelve)[k]
              IN  Record_count(r) = Len(DateAmounts(r.ID, r.sec, Len(input)))

(***************************************************************************)
(* C7: the step that reads a transaction with a zip prefix of length 5 or   *)
(* more and a date that does not parse appends one zip-report line, adds    *)
(* the amount to the key's zip record and leaves the date store as it was;  *)
(* the step that reads a transaction with a shorter zip prefix and a date   *)
(* that parses adds the amount to the key's date record and leaves the zip  *)
(* report and the zip store as they were.                                   *)
(***************************************************************************)
\* new is old with amt appended to the history of key, created if absent.
IsUpsert(old, new, key, amt) ==
    /\ DOMAIN new = DOMAIN old \cup {key}
    /\ \A k \in DOMAIN old \ {key} : new[k] = old[k]
    /\ new[key].amount =
           (IF key \in DOMAIN old THEN old[key].amount ELSE <<>>) \o <<amt>>

ZipOnly(l) ==
    IsTransaction(l) /\ Len(ZipPrefixOf(l)) >= 5 /\ ~check_date(DateOf(l))

DateOnly(l) ==
    IsTransaction(l) /\ Len(ZipPrefixOf(l)) < 5 /\ check_date(DateOf(l))

C7_Step ==
    (pc = "reading" /\ pos < Len(input) /\ pos' = pos + 1) =>
        LET l == input[pos + 1]
        IN  /\ ZipOnly(l) =>
                  /\ Len(zip_out'.lines) = Len(zip_out.lines) + 1
                  /\ IsUpsert(View(zip_shelve), View(zip_shelve'),
                              IdOf(l) \o <<" ">> \o ZipPrefixOf(l), AmountOf(l))
                  /\ View(date_shelve') = View(date_shelve)
            /\ DateOnly(l) =>
                  /\ zip_out' = zip_out
                  /\ View(zip_shelve') = View(zip_shelve)
                  /\ IsUpsert(View(date_shelve), View(date_shelve'),
                              IdOf(l) \o <<" ">> \o DateOf(l), AmountOf(l))

C7_GatesIndependent == [][C7_Step]_vars

\* Both cases have happened: a line of 13322021 with a full zip, then a line
\* of a 4-character zip with a date that parses.
C7_Witness ==
    /\ pos = 2
    /\ ZipOnly(input[1])
    /\ DateOf(input[1]) = Date13322021
    /\ DateOnly(input[2])
    /\ pc = "reading"
    /\ Len(zip_out.lines) = 1
    /\ Cardinality(DOMAIN View(zip_shelve)) = 1
    /\ Cardinality(DOMAIN View(date_shelve)) = 1

(***************************************************************************)
(* C8: for a raw amount that, once every character other than a digit or a  *)
(* point is removed, is digits optionally followed by a point and digits,   *)
(* string_to_int returns the integer before the point.                      *)
(***************************************************************************)
Cleaned(a) == SelectSeq(a, KeptByNonDecimal)

AllDigits(c, from, to) == \A i \in from..to : IsDigit(c[i])

\* The length of the digits before the point, when c has the decimal form.
IntegerLens(c) ==
    { k \in 1..Len(c) :
        /\ AllDigits(c, 1, k)
        /\ \/ k = Len(c)
           \/ c[k + 1] = "." /\ k + 1 < Len(c) /\ AllDigits(c, k + 2, Len(c)) }

C8_NormalizerTruncates ==
    \A i \in 1..pos :
        LET c == Cleaned(RawAmountOf(input[i]))
            r == string_to_int(RawAmountOf(input[i]))
        IN  (PassesValidation(input[i]) /\ IntegerLens(c) # {}) =>
                /\ r.exc = "none"
                /\ \A k \in IntegerLens(c) : r.val = DigitsToInt(SubSeq(c, 1, k))

(***************************************************************************)
(* C9: the step that reads a line failing validation changes neither store  *)
(* and neither report, raises nothing, and leaves the run reading.          *)
(***************************************************************************)
C9_Step ==
    (pc = "reading" /\ pos < Len(input) /\ pos' = pos + 1
        /\ ~PassesValidation(input[pos + 1])) =>
        (/\ UNCHANGED <<zip_shelve, date_shelve, zip_out, date_out, exc>>
         /\ pc' = "reading")

C9_MalformedLineSkipped == [][C9_Step]_vars

\* A line with an empty amount between two transactions: the report has the
\* two lines of the transactions.
C9_Witness ==
    /\ pos = 3
    /\ IsTransaction(input[1])
    /\ Len(Row(input[2])) = 21 /\ RawAmountOf(input[2]) = <<>>
    /\ IsTransaction(input[3])
    /\ pc = "reading"
    /\ Len(zip_out.lines) = 2
    /\ \A k \in DOMAIN View(date_shelve) : Record_count(View(date_shelve)[k]) = 2

RECURSIVE SumOver(_, _)
SumOver(f, S) ==
    IF S = {} THEN 0
    ELSE LET k == CHOOSE x \in S : TRUE IN f[k] + SumOver(f, S \ {k})

\* The number of updates (a record created, an amount appended) applied to a
\* shelf since the content `synced` of its last flush.
UpdatesSince(sh, synced) ==
    LET v     == View(sh)
        added == [k \in DOMAIN v |->
                    Len(v[k].amount)
                    - (IF k \in DOMAIN synced THEN Len(synced[k].amount) ELSE 0)]
    IN  SumOver(added, DOMAIN v)

Flushed(sh, synced) ==
    /\ sh.cache = EmptyMap
    /\ sh.dict = synced
    /\ UpdatesSince(sh, synced) = 0

\* C11: while a run reads, writes its report or has completed, each store
\* has had at most cache_size updates applied since its last flush, and once
\* the run has completed normally neither store holds an unflushed update.
C11_FlushBound ==
    /\ pc \in {"reading", "written", "done"} =>
          /\ UpdatesSince(zip_shelve, zip_synced) <= cache_size
          /\ UpdatesSince(date_shelve, date_synced) <= cache_size
    /\ pc = "done" =>
          /\ Flushed(zip_shelve, zip_synced)
          /\ Flushed(date_shelve, date_synced)

\* A completed run that flushed once on the counter and once at shutdown.
C11_Witness ==
    /\ pc = "done"
    /\ pos > cache_size
    /\ count = pos - cache_size
    /\ \E k \in DOMAIN zip_shelve.dict : Len(zip_shelve.dict[k].amount) = pos
    /\ \E k \in DOMAIN date_shelve.dict : Len(date_shelve.dict[k].amount) = pos

(***************************************************************************)
(* C12: close() on every exit path                                         *)
(***************************************************************************)
\* C12: whenever a run that opened the stores has ended, normally or by an
\* exception raised while a line was processed or the report was written,
\* close() has been executed on both stores.
C12_ClosedOnEveryExit ==
    (pc \in {"done", "raised"} /\ handle # Unopened) =>
        /\ handle.zip_shelve = "closed"
        /\ handle.date_shelve = "closed"

(***************************************************************************)
(* C13: an output path that already names a file                           *)
(***************************************************************************)
C13_Step ==
    /\ (pc = "start" /\ (zip_out.exists \/ date_out.exists)) =>
          /\ pc' = "raised"
          /\ exc' = "OSError"
          /\ UNCHANGED <<input, pos, zip_shelve, date_shelve, count, zip_out,
                         date_out, zip_synced, date_synced, handle>>
    /\ (pc = "raised" /\ exc = "OSError") => UNCHANGED vars

\* C13: a run started while either output path names an existing file ends
\* with OSError in its first step: no input line is read, neither shelf is
\* opened or changed, no output file is changed, and nothing happens after.
C13_ExistingOutputFailsFirst == [][C13_Step]_vars

\* A second run refused because the date report of the first run exists,
\* although that run wrote no zip report.
C13_Witness ==
    /\ pc = "raised"
    /\ exc = "OSError"
    /\ run > 1
    /\ Len(input) > 0
    /\ pos = 0
    /\ handle = Unopened
    /\ ~zip_out.exists
    /\ date_out.exists
    /\ date_out.lines # <<>>
    /\ date_shelve.dict # EmptyMap

(***************************************************************************)
(* C14: rounder on every number                                            *)
(***************************************************************************)
\* Round-half-up of num/den (den > 0): the floor when the fractional part
\* num/den - floor(num/den) is below one half, the ceiling otherwise.
HalfUp(num, den) ==
    LET floor_ == num \div den
        frac   == num - floor_ * den
    IN  IF 2 * frac < den THEN floor_ ELSE floor_ + 1

RoundHalfUp(number) ==
    IF number.isint THEN number.num ELSE HalfUp(number.num, number.den)

\* C14: rounder returns an int unchanged and rounds every other number half
\* up, negative numbers included: to the floor when the fractional part is
\* strictly below 0.5, to the ceiling otherwise.
C14_RounderIsHalfUp ==
    (call.fn = "rounder" /\ call.done) => call.result = RoundHalfUp(call.arg)

(***************************************************************************)
(* C15: the median of a history                                            *)
(***************************************************************************)
\* The k-th smallest element of a, counted with repetitions.
KthSmallest(a, k) ==
    CHOOSE v \in {a[i] : i \in DOMAIN a} :
        /\ Cardinality({i \in DOMAIN a : a[i] < v}) < k
        /\ Cardinality({i \in DOMAIN a : a[i] <= v}) >= k

MedianByRank(a) ==
    LET n == Len(a)
    IN  IF n % 2 = 1 THEN KthSmallest(a, (n + 1) \div 2)
        ELSE HalfUp(KthSmallest(a, n \div 2) + KthSmallest(a, n \div 2 + 1), 2)

\* C15: the median of a non-empty history of integers is the middle element
\* by rank when the length is odd and the mean of the two middle elements
\* by rank, rounded half up, when it is even, whatever the stored order.
C15_MedianOfHistory ==
    (call.fn = "median" /\ call.done) => call.result = MedianByRank(call.arg)

\* An unsorted history of even length whose middle mean ends in .5 and is
\* negative, so that the rounding goes up towards zero.
C15_Witness ==
    /\ call.fn = "median"
    /\ call.done
    /\ Len(call.arg) = 4
    /\ call.arg[1] > call.arg[2]
    /\ call.arg[3] > call.arg[4]
    /\ KthSmallest(call.arg, 2) + KthSmallest(call.arg, 3) = -3
    /\ call.result = -1

(***************************************************************************)
(* C16: the zip report grows at its end, in input order                    *)
(***************************************************************************)
C16_Step ==
    LET old == zip_out.lines
        new == zip_out'.lines
    IN  \/ new = old
        \/ /\ pc = "reading"
           /\ pos' = pos + 1
           /\ PassesZipGate(input[pos + 1])
           /\ Len(new) = Len(old) + 1
           /\ SubSeq(new, 1, Len(old)) = old
           /\ ReportId(new[Len(new)]) = IdOf(input[pos + 1])
           /\ split(new[Len(new)], "|")[2] = ZipPrefixOf(input[pos + 1])

\* C16: every step of a run leaves the lines of the zip report as they are
\* or appends, after all of them, the one line of the input line it has just
\* read, which passes the zip gate: the report lines stand in the order of
\* the input lines that caused them and none is changed or removed.
C16_ZipReportAppendOnly == [][C16_Step]_vars

\* Three lines read, of which the first and the third pass the zip gate for
\* different recipients: the report holds their two lines in that order.
C16_Witness ==
    /\ pos = 3
    /\ ZipEvents(pos) = <<1, 3>>
    /\ Len(zip_out.lines) = 2
    /\ ReportId(zip_out.lines[1]) = IdOf(input[1])
    /\ ReportId(zip_out.lines[2]) = IdOf(input[3])
    /\ IdOf(input[1]) # IdOf(input[3])

(***************************************************************************)
(* C17: the date report is written once, after the input                   *)
(***************************************************************************)
C17_Step ==
    /\ pos < Len(input) => date_out.lines = <<>>
    /\ pos' < Len(input') => date_out'.lines = <<>>
    /\ pos' # pos => date_out' = date_out
    /\ date_out' # date_out => (pc = "reading" /\ pc' \in {"written", "raised"})

\* C17: while an input line is still unread the date report holds no line,
\* a step that reads a line leaves the date report as it is, and the only
\* step that writes it is the one that follows the last line.
C17_DateReportWrittenAtEnd == [][C17_Step]_vars

\* A completed report of two lines after three input lines.
C17_Witness ==
    /\ pc = "written"
    /\ pos = Len(input)
    /\ pos = 3
    /\ Len(date_out.lines) = 2

(***************************************************************************)
(* C18: the history of a key only grows, at its end                        *)
(***************************************************************************)
IsPrefix(a, b) == Len(a) <= Len(b) /\ SubSeq(b, 1, Len(a)) = a

\* Every key of old is a key of new, with a history that old's is a prefix of.
Extends(old, new) ==
    \A k \in DOMAIN old :
        /\ k \in DOMAIN new
        /\ IsPrefix(old[k].amount, new[k].amount)

C18_Step ==
    /\ Extends(View(zip_shelve), View(zip_shelve'))
    /\ Extends(View(date_shelve), View(date_shelve'))
    /\ Extends(zip_shelve.dict, zip_shelve'.dict)
    /\ Extends(date_shelve.dict, date_shelve'.dict)
    /\ IF pc = "reading" /\ pos' = pos + 1 /\ exc' = "none"
       THEN LET l == input[pos + 1]
            IN  /\ IF PassesZipGate(l)
                   THEN IsUpsert(View(zip_shelve), View(zip_shelve'),
                                 IdOf(l) \o <<" ">> \o ZipPrefixOf(l),
                                 AmountOf(l))
                   ELSE View(zip_shelve') = View(zip_shelve)
                /\ IF PassesDateGate(l)
                   THEN IsUpsert(View(date_shelve), View(date_shelve'),
                                 IdOf(l) \o <<" ">> \o DateOf(l), AmountOf(l))
                   ELSE View(date_shelve') = View(date_shelve)
       ELSE /\ View(zip_shelve') = View(zip_shelve)
            /\ View(date_shelve') = View(date_shelve)

\* C18: over every step of a run, flushes included, each key of each store
\* stays, with a history that its earlier history is a prefix of; a step
\* that aggregates a transaction appends its amount to the history of the
\* keys whose gate it passes and changes nothing else; no other step changes
\* a history.
C18_HistoryAppendOnly == [][C18_Step]_vars

\* A key with three amounts, two of them flushed by the counter and the
\* third still in the cache.
C18_Witness ==
    /\ cache_size = SmallCacheSize
    /\ pc = "reading"
    /\ \E k \in DOMAIN zip_shelve.dict :
          /\ Len(zip_shelve.dict[k].amount) = cache_size
          /\ Len(View(zip_shelve)[k].amount) = cache_size + 1
    /\ \E k \in DOMAIN date_shelve.dict :
          /\ Len(date_shelve.dict[k].amount) = cache_size
          /\ Len(View(date_shelve)[k].amount) = cache_size + 1

(***************************************************************************)
(* C19: one record per (recipient id, secondary field)                     *)
(***************************************************************************)
\* What the claims need of each line read so far, computed once per state.
Seen ==
    [i \in 1..pos |->
        LET l == input[i]
        IN  [zipok  |-> PassesZipGate(l),
             dateok |-> PassesDateGate(l),
             id     |-> IdOf(l),
             zip    |-> ZipPrefixOf(l),
             date   |-> DateOf(l),
             raw    |-> RawAmountOf(l),
             amt    |-> IF IsTransaction(l) THEN AmountOf(l) ELSE 0]]

\* Two lines share the pair that the zip grouping, or the date grouping, is
\* defined by.
SameZipGroup(a, b) == a.id = b.id /\ a.zip = b.zip

SameDateGroup(a, b) == a.id = b.id /\ a.date = b.date

Amounts(seen, sel) == [m \in 1..Len(sel) |-> seen[sel[m]].amt]

\* The amounts, in input order, of the gate-passing lines of line i's group.
ZipHistory(seen, i) ==
    Amounts(seen, SelectSeq([n \in 1..pos |-> n],
                LAMBDA n : seen[n].zipok /\ SameZipGroup(seen[n], seen[i])))

DateHistory(seen, i) ==
    Amounts(seen, SelectSeq([n \in 1..pos |-> n],
                LAMBDA n : seen[n].dateok /\ SameDateGroup(seen[n], seen[i])))

\* Record k of store view v holds the amount of the i-th line read: it
\* carries the line's fields and the history of the line's group.
HoldsZip(v, k, seen, i) ==
    /\ v[k].ID = seen[i].id
    /\ v[k].sec = seen[i].zip
    /\ v[k].amount = ZipHistory(seen, i)

HoldsDate(v, k, seen, i) ==
    /\ v[k].ID = seen[i].id
    /\ v[k].sec = seen[i].date
    /\ v[k].amount = DateHistory(seen, i)

\* C19: of the lines read so far, each one that passes a gate is held by
\* exactly one record of that store, the record holds exactly the amounts
\* of the lines with the same recipient id and the same secondary field, and
\* two lines are held by the same record if and only if they agree on both;
\* the store has one record per pair.
C19_KeyInjective ==
    \E seen \in {Seen} :
    \E vz \in {View(zip_shelve)} :
    \E vd \in {View(date_shelve)} :
        /\ \A i \in 1..pos : seen[i].zipok =>
              /\ Cardinality({k \in DOMAIN vz : HoldsZip(vz, k, seen, i)}) = 1
              /\ \A j \in 1..pos : seen[j].zipok =>
                    ((\E k \in DOMAIN vz : /\ HoldsZip(vz, k, seen, i)
                                           /\ HoldsZip(vz, k, seen, j))
                       <=> SameZipGroup(seen[i], seen[j]))
        /\ \A i \in 1..pos : seen[i].dateok =>
              /\ Cardinality({k \in DOMAIN vd : HoldsDate(vd, k, seen, i)}) = 1
              /\ \A j \in 1..pos : seen[j].dateok =>
                    ((\E k \in DOMAIN vd : /\ HoldsDate(vd, k, seen, i)
                                           /\ HoldsDate(vd, k, seen, j))
                       <=> SameDateGroup(seen[i], seen[j]))
        /\ Cardinality(DOMAIN vz) =
              Cardinality({<<seen[i].id, seen[i].zip>> :
                             i \in {n \in 1..pos : seen[n].zipok}})
        /\ Cardinality(DOMAIN vd) =
              Cardinality({<<seen[i].id, seen[i].date>> :
                             i \in {n \in 1..pos : seen[n].dateok}})

\* Recipient "A 1" with zip 12017 and recipient "A" with date "1 12017" give
\* the same key text, one in each store; with a second transaction of "A"
\* the zip store holds three records, one of them for an id with a space.
C19_Witness ==
    /\ pos = 3
    /\ IdA1 \o <<" ">> \o Zip12017 \in DOMAIN View(zip_shelve)
    /\ IdA \o <<" ">> \o Date1s12017 \in DOMAIN View(date_shelve)
    /\ IdA \o <<" ">> \o Date1s12017 = IdA1 \o <<" ">> \o Zip12017
    /\ Cardinality(DOMAIN View(zip_shelve)) = 3
    /\ \E i, j \in 1..pos : /\ IdOf(input[i]) = IdA
                              /\ IdOf(input[j]) = IdA
                              /\ ZipPrefixOf(input[i]) # ZipPrefixOf(input[j])

(***************************************************************************)
(* C20: amounts are held without their sign                                *)
(***************************************************************************)
NonNegative(v) ==
    \A k \in DOMAIN v :
        /\ \A i \in 1..Len(v[k].amount) : v[k].amount[i] \in Nat
        /\ Record_median(v[k]) >= 0
        /\ Record_total(v[k]) >= 0

HasMinus(l) == PassesValidation(l) /\ RawAmountOf(l) = AmtMinus100

\* C20: every amount either store holds is a non-negative integer, and so
\* are the median and the total of every key; a line read with the raw
\* amount "-100" is a transaction of amount 100, and the histories of its
\* keys hold 100 for it.
C20_AmountsNonNegative ==
    /\ NonNegative(View(zip_shelve))
    /\ NonNegative(View(date_shelve))
    /\ NonNegative(zip_shelve.dict)
    /\ NonNegative(date_shelve.dict)
    /\ \A i \in 1..pos : HasMinus(input[i]) =>
          /\ IsTransaction(input[i])
          /\ AmountOf(input[i]) = 100
          /\ PassesZipGate(input[i]) =>
                \E k \in DOMAIN View(zip_shelve) :
                    /\ View(zip_shelve)[k].ID = IdOf(input[i])
                    /\ View(zip_shelve)[k].sec = ZipPrefixOf(input[i])
                    /\ \E n \in DOMAIN View(zip_shelve)[k].amount :
                          View(zip_shelve)[k].amount[n] = 100

\* The line with "-100" read after one of 250 for the same keys: the zip
\* record holds <<250, 100>>, total 350 and median 175.
C20_Witness ==
    /\ pos = 2
    /\ HasMinus(input[2])
    /\ \E k \in DOMAIN View(zip_shelve) :
          /\ View(zip_shelve)[k].amount = <<250, 100>>
          /\ Record_total(View(zip_shelve)[k]) = 350
          /\ Record_median(View(zip_shelve)[k]) = 175
    /\ \E k \in DOMAIN View(date_shelve) :
          View(date_shelve)[k].amount = <<250, 100>>

====
